---- MODULE Spec2Model ----
(***************************************************************************)
(* The crypto-payment lifecycle of the e-commerce backend:                 *)
(*   apps/payments/api.py    initiate_payment, payment_webhook,            *)
(*                           simulate_payment                              *)
(*   apps/payments/tasks.py  monitor_crypto_payment (payment_detected),    *)
(*                           monitor_transaction_confirmations,            *)
(*                           send_payment_confirmation_email,              *)
(*                           check_expired_payments                        *)
(*   apps/payments/crypto/   the two processors' amount and matching rules *)
(*                                                                         *)
(* Rows of the database are records; a handler that loads a row keeps a    *)
(* local copy and Model.save() writes every field of that copy back.       *)
(* Amounts are integers: EUR in cents, crypto in units of 10^-8.           *)
(* Time is in minutes.                                                     *)
(***************************************************************************)
EXTENDS Integers, Sequences, FiniteSets, Bags, TLC

---------------------------------------------------------------------------
\* Bounds of the model.
NumOrders == 1          \* orders in the orders table
NumClients == 2         \* HTTP requests that can be in flight together
NumWorkers == 2         \* Celery tasks that can run together
MaxTicks == 2           \* how often the clock advances
MaxInFlight == 2        \* handlers and tasks that can be under way together
MaxConfirmations == 3   \* largest confirmation count the ledger or a webhook reports
MaxQueue == 2           \* messages waiting in the Celery queue
MaxBlocks == 3          \* blocks mined on the ledger
MaxFaults == 2          \* ledger calls that fail transiently
NumProducts == 1        \* products in the catalog
InitialStock == 2       \* units of each product in stock at the start
MaxQuantity == 3        \* largest quantity of a cart item

\* Program constants.
RequiredConfirmations == 3      \* Payment.required_confirmations default
ExpiryMinutes == 30             \* timedelta(minutes=30)
BtcPrice == 35000               \* get_btc_price, EUR
EthPrice == 2500                \* get_eth_price, EUR
NoTime == -1                    \* a DateTimeField holding NULL
FreeShippingFrom == 5000        \* subtotal from which shipping is free, cents
ShippingCost == 495             \* Decimal('4.95'), cents
TaxPercent == 21                \* tax_rate = Decimal('0.21')

Orders == 1..NumOrders
Products == 1..NumProducts
Clients == 1..NumClients
Workers == 1..NumWorkers
TxHashes == {"h1", "h2"}
OrderSubtotals == {3555}        \* subtotals of the carts checked out, cents
OrderQuantities == {1}          \* quantities of the items of the orders placed
PaymentMethods == {"crypto_btc", "crypto_eth", "crypto_usdt"}

VARIABLES
  now,        \* timezone.now(), minutes
  ticks,      \* clock advances so far
  orders,     \* orders table: id -> row
  payments,   \* payments table: sequence of rows, id = index
  wallets,    \* crypto_wallets table: sequence of rows
  queue,      \* Celery broker: bag of [task, payment_id]
  worker,     \* Celery worker slots: the task running in each, with its locals
  req,        \* HTTP request slots: the handler running in each, with its locals
  sweeper,    \* check_expired_payments: the payments it read and has yet to write
  hist,       \* history: what has happened to each payment (for the properties)
  ledger,     \* the public ledger: its height and the customer's transaction
  stock       \* products table: id -> stock

vars == <<now, ticks, orders, payments, wallets, queue, worker, req, sweeper,
          hist, ledger, stock>>

Idle == [op |-> "idle"]

\* A view that has returned: the slot holds the response's status code until
\* the response is sent.
Response(view, status) == [op |-> view, pc |-> "respond", status |-> status]

\* A new request or task takes the first free slot.
FirstFree(slots, i) == slots[i] = Idle /\ \A j \in 1..(i - 1) : slots[j] # Idle

---------------------------------------------------------------------------
\* Pure functions.

\* Decimal.quantize with the default rounding (ROUND_HALF_EVEN) of num/den.
Quantize(num, den) ==
  LET q == num \div den
      r == num % den
  IN  IF 2 * r > den \/ (2 * r = den /\ q % 2 = 1) THEN q + 1 ELSE q

RECURSIVE GCD(_, _)
GCD(a, b) == IF b = 0 THEN a ELSE GCD(b, a % b)

\* BitcoinPaymentProcessor.calculate_crypto_amount: EUR cents -> 10^-8 BTC,
\* quantized to 8 decimal places: eur_cents * 10^6 / price, the fraction
\* reduced first so that the product stays a 32-bit integer.
btc_calculate_crypto_amount(eur_cents) ==
  LET g == GCD(1000000, BtcPrice)
  IN  Quantize(eur_cents * (1000000 \div g), BtcPrice \div g)

\* EthereumPaymentProcessor.calculate_crypto_amount: EUR cents -> 10^-8 ETH,
\* quantized to 6 decimal places (so a multiple of 100 units).
eth_calculate_crypto_amount(eur_cents) ==
  100 * Quantize(eur_cents * 10000, EthPrice)

\* The order row with the shipping cost left out of the total.
OrderRowNoShipping(subtotal, product, quantity) ==
  LET shipping_cost == IF subtotal >= FreeShippingFrom THEN 0 ELSE ShippingCost
  IN  [status |-> "pending", paid_at |-> NoTime,
       subtotal |-> subtotal,
       shipping_cost |-> shipping_cost,
       tax_amount |-> Quantize((subtotal + shipping_cost) * TaxPercent, 100),
       discount_amount |-> 0,
       total |-> Quantize(subtotal * 100 + (subtotal + shipping_cost) * TaxPercent,
                          100),
       product |-> product, quantity |-> quantity]

\* The order row create_order builds for a cart of one item: shipping is
\* free from 50.00, tax is 21% of subtotal plus shipping, total is their sum;
\* tax_amount and total are computed unrounded and each is rounded to two
\* places (half even) when the DecimalField is stored.  discount_amount keeps
\* its default.  The row carries its one order item (product, quantity).
OrderRow(subtotal, product, quantity) ==
  LET shipping_cost == IF subtotal >= FreeShippingFrom THEN 0 ELSE ShippingCost
  IN  [status |-> "pending", paid_at |-> NoTime,
       subtotal |-> subtotal,
       shipping_cost |-> shipping_cost,
       tax_amount |-> Quantize((subtotal + shipping_cost) * TaxPercent, 100),
       discount_amount |-> 0,
       total |-> Quantize((subtotal + shipping_cost) * (100 + TaxPercent), 100),
       product |-> product, quantity |-> quantity]

\* initiate_payment's choice of processor and currency.
CryptoCurrency(method) ==
  IF method = "crypto_btc" THEN "BTC"
  ELSE IF method = "crypto_eth" THEN "ETH" ELSE "USDT"

\* The currency whose EUR price the chosen processor divides by:
\* BitcoinPaymentProcessor reads get_btc_price, EthereumPaymentProcessor,
\* chosen for crypto_eth and crypto_usdt alike, reads get_eth_price.
PriceCurrency(method) == IF method = "crypto_btc" THEN "BTC" ELSE "ETH"

calculate_crypto_amount(method, eur_cents) ==
  IF method = "crypto_btc" THEN btc_calculate_crypto_amount(eur_cents)
  ELSE eth_calculate_crypto_amount(eur_cents)

\* The amount test without the tolerance.
FullAmountOnly(received, expected) == received >= expected

\* The amount test of both monitor_address loops:
\* received >= expected_amount * Decimal('0.99').
AmountAccepted(received, expected) == 100 * received >= 99 * expected

---------------------------------------------------------------------------
\* Table helpers.

PaymentIds == 1..Len(payments)

\* hasattr(order, 'payment') / order.payment: the payment rows of an order.
PaymentsOf(order_id) == {p \in PaymentIds : payments[p].order = order_id}

\* payment.wallets: the wallet rows of a payment.
WalletsOf(pid) == {w \in 1..Len(wallets) : wallets[w].payment = pid}

\* Mutant: Payment.order declared as a plain ForeignKey, without the unique
\* index.
OrderNotUnique(order_id) == FALSE

\* The unique index of Payment.order (OneToOneField): an INSERT of a second
\* row for the same order raises IntegrityError.
OrderUniqueViolated(order_id) == PaymentsOf(order_id) # {}

\* Mutant: initiate_payment without its check of the order's payment.
NoActivePayment(order_id) == FALSE

\* hasattr(order, 'payment') and order.payment.status != 'failed'
HasActivePayment(order_id) ==
  \E p \in PaymentsOf(order_id) : payments[p].status # "failed"

\* Payment.objects.create(...) in initiate_payment: the new row.
NewPayment(order_id, method, address) ==
  [order |-> order_id,
   payment_method |-> method,
   status |-> "pending",
   amount |-> orders[order_id].total,
   crypto_amount |-> calculate_crypto_amount(method, orders[order_id].total),
   crypto_currency |-> CryptoCurrency(method),
   wallet_address |-> address,
   transaction_hash |-> "",
   confirmations |-> 0,
   required_confirmations |-> RequiredConfirmations,
   confirmed_at |-> NoTime,
   expires_at |-> now + ExpiryMinutes]

\* CryptoWallet.objects.create(...) in initiate_payment: the new row.
\* The wallet row marked used from the start.
NewWalletUsed(pid, currency, address) ==
  [payment |-> pid, currency |-> currency, address |-> address, is_used |-> TRUE]

NewWallet(pid, currency, address) ==
  [payment |-> pid, currency |-> currency, address |-> address, is_used |-> FALSE]

\* payment.order.status = 'paid'; payment.order.paid_at = now; order.save()
MarkOrderPaid(order_id) ==
  [orders EXCEPT ![order_id].status = "paid", ![order_id].paid_at = now]

\* Tasks sent to the broker.
Task(name, pid) == [task |-> name, payment_id |-> pid]
Enqueue(q, t) == q (+) SetToBag({t})
QueueRoom(n) == BagCardinality(queue) + n <= MaxQueue

\* History kept for every payment (read by the properties only):
\*   delivered  the payload of the webhook that was the last to write the row
\*              or its order, NoPayload when something else wrote after it
NoPayload ==
  [payment_id |-> 0, transaction_hash |-> "", confirmations |-> 0, amount |-> 0]
NoHistory == [delivered |-> NoPayload]
Wrote(h, pid, payload) == [h EXCEPT ![pid].delivered = payload]

\* Handlers and tasks under way: the busy request and worker slots and the
\* sweep.
InFlight ==
  Cardinality({c \in Clients : req[c] # Idle})
  + Cardinality({w \in Workers : worker[w] # Idle})
  + (IF sweeper # <<>> THEN 1 ELSE 0)
CanStart == InFlight < MaxInFlight

---------------------------------------------------------------------------
Init ==
  /\ now = 0
  /\ ticks = 0
  /\ \E subtotal \in OrderSubtotals, quantity \in OrderQuantities :
       orders = [o \in Orders |->
                   OrderRow(subtotal, ((o - 1) % NumProducts) + 1, quantity)]
  /\ stock = [p \in Products |-> InitialStock]
  /\ payments = <<>>
  /\ wallets = <<>>
  /\ queue = EmptyBag
  /\ worker = [w \in Workers |-> Idle]
  /\ req = [c \in Clients |-> Idle]
  /\ sweeper = <<>>
  /\ hist = <<>>
  /\ ledger = [height |-> 0, tx_block |-> 0, to |-> 0, faults |-> MaxFaults,
              delays |-> <<>>, value |-> 0]

\* The clock: first to the end of the payment window, then minute by minute.
Tick ==
  /\ ticks < MaxTicks
  /\ now' = now + (IF ticks = 0 THEN ExpiryMinutes ELSE 1)
  /\ ticks' = ticks + 1
  /\ UNCHANGED <<stock, ledger, orders, payments, wallets, queue, worker, req, sweeper,
                 hist>>

---------------------------------------------------------------------------
\* POST /payments/initiate (initiate_payment), under @transaction.atomic.
\* 1. the order is loaded and its payment, if any, inspected;
\* 2. the rows are inserted and monitor_crypto_payment is sent to the broker,
\*    inside the transaction;
\* 3. the transaction commits when the view returns.
\* The database lets one transaction at a time hold an uncommitted payment
\* row: the unique index makes a second INSERT wait for the first's commit.
\* The payment method is first read in step 2 and is drawn there.

InitiateCheck(c) ==
  /\ FirstFree(req, c)
  /\ CanStart
  /\ \E order_id \in 1..(NumOrders + 1) :
       req' = [req EXCEPT ![c] =
         IF order_id \notin Orders
         THEN Response("initiate_payment", 404)           \* get_object_or_404
         ELSE IF HasActivePayment(order_id)
         THEN Response("initiate_payment", 400)
         ELSE [op |-> "initiate_payment", pc |-> "create", order_id |-> order_id]]
  /\ UNCHANGED <<stock, ledger, now, ticks, orders, payments, wallets, queue, worker, sweeper, hist>>

InitiateCreate(c) ==
  /\ req[c].op = "initiate_payment" /\ req[c].pc = "create"
  /\ \A d \in Clients : ~(req[d].op = "initiate_payment" /\ req[d].pc = "commit")
  /\ IF OrderUniqueViolated(req[c].order_id)
     THEN \* IntegrityError: the transaction rolls back, the view answers 500
          /\ req' = [req EXCEPT ![c] = Response("initiate_payment", 500)]
          /\ UNCHANGED queue
     ELSE /\ QueueRoom(1)
          /\ \E method \in PaymentMethods :
             LET pid == Len(payments) + 1
                 address == Len(wallets) + 1     \* generate_wallet: a fresh address
                 row == NewPayment(req[c].order_id, method, address)
             IN  /\ req' = [req EXCEPT ![c] =
                              [op |-> "initiate_payment", pc |-> "commit",
                               payment |-> row,
                               wallet |-> NewWallet(pid, row.crypto_currency, address)]]
                 /\ queue' = Enqueue(queue, Task("monitor_crypto_payment", pid))
  /\ UNCHANGED <<stock, ledger, now, ticks, orders, payments, wallets, worker, sweeper, hist>>

InitiateCommit(c) ==
  /\ req[c].op = "initiate_payment" /\ req[c].pc = "commit"
  /\ payments' = Append(payments, req[c].payment)
  /\ wallets' = Append(wallets, req[c].wallet)
  /\ hist' = Append(hist, NoHistory)
  /\ req' = [req EXCEPT ![c] = Response("initiate_payment", 200)]
  /\ UNCHANGED <<stock, ledger, now, ticks, orders, queue, worker, sweeper>>

initiate_payment ==
  \E c \in Clients : InitiateCheck(c) \/ InitiateCreate(c) \/ InitiateCommit(c)

---------------------------------------------------------------------------
\* POST /payments/webhook/{provider} (payment_webhook).  The payload's amount
\* and from_address are never read by the handler; the payloads carry an
\* amount below the 1% tolerance of the payment's crypto_amount or equal to it.
\* 1. Payment.objects.get(id=data.payment_id);
\* 2. the assignments, payment.order.save() and payment.save().
\* The rest of the payload is first read in step 2 and is drawn there.  Of the
\* row loaded in step 1 the slot keeps what step 2 can still read: the
\* handler overwrites transaction_hash and confirmations from the payload
\* before it reads them, so the slot holds them blank.

WebhookAmounts(expected) == {expected - expected \div 50, expected}

WebhookPayloads(payment_id) ==
  [payment_id : {payment_id}, transaction_hash : TxHashes,
   confirmations : 0..MaxConfirmations,
   amount : WebhookAmounts(payments[payment_id].crypto_amount)]

Loaded(row) == [row EXCEPT !.transaction_hash = "", !.confirmations = 0]

\* The lookup with Payment.DoesNotExist left to the generic handler.
WebhookReadGeneric(c) ==
  /\ FirstFree(req, c)
  /\ CanStart
  /\ \E payment_id \in 1..(Len(payments) + 1) :
       req' = [req EXCEPT ![c] =
         IF payment_id \notin PaymentIds
         THEN Response("payment_webhook", 500)
         ELSE [op |-> "payment_webhook", pc |-> "write",
               payment_id |-> payment_id,
               payment |-> Loaded(payments[payment_id])]]
  /\ UNCHANGED <<stock, ledger, now, ticks, orders, payments, wallets, queue, worker, sweeper, hist>>

WebhookRead(c) ==
  /\ FirstFree(req, c)
  /\ CanStart
  /\ \E payment_id \in 1..(Len(payments) + 1) :
       req' = [req EXCEPT ![c] =
         IF payment_id \notin PaymentIds
         THEN Response("payment_webhook", 404)            \* Payment.DoesNotExist
         ELSE [op |-> "payment_webhook", pc |-> "write",
               payment_id |-> payment_id,
               payment |-> Loaded(payments[payment_id])]]
  /\ UNCHANGED <<stock, ledger, now, ticks, orders, payments, wallets, queue, worker, sweeper, hist>>

\* The row payment_webhook saves, from the row it loaded and the payload.
WebhookRow(payment, data) ==
  LET p1 == [payment EXCEPT !.transaction_hash = data.transaction_hash,
                            !.confirmations = data.confirmations]
  IN  IF data.confirmations >= payment.required_confirmations
      THEN [p1 EXCEPT !.status = "confirmed", !.confirmed_at = now]
      ELSE p1

WebhookWrite(c) ==
  /\ req[c].op = "payment_webhook" /\ req[c].pc = "write"
  /\ \E data \in WebhookPayloads(req[c].payment_id) :
     LET pid == data.payment_id
         row == WebhookRow(req[c].payment, data)
         confirms == data.confirmations >= req[c].payment.required_confirmations
     IN  /\ confirms => QueueRoom(1)
         /\ payments' = [payments EXCEPT ![pid] = row]
         /\ orders' = IF confirms THEN MarkOrderPaid(row.order) ELSE orders
         /\ queue' = IF confirms
                     THEN Enqueue(queue, Task("send_payment_confirmation_email", pid))
                     ELSE queue
         /\ hist' = Wrote(hist, pid, data)
  /\ req' = [req EXCEPT ![c] = Response("payment_webhook", 200)]
  /\ UNCHANGED <<stock, ledger, now, ticks, wallets, worker, sweeper>>

payment_webhook == \E c \in Clients : WebhookRead(c) \/ WebhookWrite(c)

\* POST /payments/simulate/{payment_id} (simulate_payment): the module never
\* imports settings, so `settings.DEBUG` raises NameError before anything is
\* read or written and the request ends in a 500.
simulate_payment ==
  /\ CanStart
  /\ \E c \in Clients :
       /\ FirstFree(req, c)
       /\ req' = [req EXCEPT ![c] = Response("simulate_payment", 500)]
  /\ UNCHANGED <<stock, ledger, now, ticks, orders, payments, wallets, queue, worker, sweeper, hist>>

\* The response leaves; the slot is free again.
Respond ==
  /\ \E c \in Clients :
       /\ req[c].op # "idle" /\ req[c].pc = "respond"
       /\ req' = [req EXCEPT ![c] = Idle]
  /\ UNCHANGED <<stock, ledger, now, ticks, orders, payments, wallets, queue, worker, sweeper, hist>>

---------------------------------------------------------------------------
\* Celery.  A worker slot takes a message from the broker and runs the task;
\* the task's first statement, Payment.objects.get, is part of that step.

Dequeue(t) == queue (-) SetToBag({t})

\* What service.getaddresstxs / a new block shows of the payment's address in
\* one poll: nothing, one transaction of some value, or an error.
TxValues(expected) ==
  {expected - expected \div 50, expected - expected \div 200, expected}

\* monitor_crypto_payment up to the call of processor.monitor_address.
MonitorStart(w) ==
  /\ FirstFree(worker, w)
  /\ CanStart
  /\ \E t \in BagToSet(queue) :
       /\ t.task = "monitor_crypto_payment"
       /\ queue' = Dequeue(t)
       /\ IF t.payment_id \notin PaymentIds
          THEN UNCHANGED worker                \* Payment.DoesNotExist: logged
          ELSE LET payment == payments[t.payment_id]
               IN  IF payment.status # "pending" \/ payment.expires_at < now
                   THEN UNCHANGED worker       \* return
                   ELSE worker' = [worker EXCEPT ![w] =
                          [op |-> "monitor_crypto_payment", pc |-> "monitor_address",
                           payment_id |-> t.payment_id, payment |-> payment,
                           checked_txs |-> {},
                           last_block |-> IF payment.crypto_currency = "BTC"
                                          THEN 0 ELSE ledger.height]]
  /\ UNCHANGED <<stock, ledger, now, ticks, orders, payments, wallets, req, sweeper, hist>>

\* The callback without the `return` that follows it in monitor_address: the
\* loop goes on after the hand-over.
payment_detected_no_return(w, tx_hash) ==
  LET pid == worker[w].payment_id
      row == [worker[w].payment EXCEPT !.transaction_hash = tx_hash,
                                       !.status = "processing"]
  IN  /\ QueueRoom(1)
      /\ payments' = [payments EXCEPT ![pid] = row]
      /\ queue' = Enqueue(queue, Task("monitor_transaction_confirmations", pid))
      /\ hist' = Wrote(hist, pid, NoPayload)
      /\ UNCHANGED <<stock, ledger, now, ticks, orders, wallets, req, sweeper, worker>>

\* payment_detected(tx_hash): the callback of monitor_address, run on the
\* payment object monitor_crypto_payment loaded when it started.
payment_detected(w, tx_hash) ==
  LET pid == worker[w].payment_id
      row == [worker[w].payment EXCEPT !.transaction_hash = tx_hash,
                                       !.status = "processing"]
  IN  /\ QueueRoom(1)
      /\ payments' = [payments EXCEPT ![pid] = row]
      /\ queue' = Enqueue(queue, Task("monitor_transaction_confirmations", pid))
      /\ hist' = Wrote(hist, pid, NoPayload)
      /\ worker' = [worker EXCEPT ![w] = Idle]
      /\ UNCHANGED <<stock, ledger, now, ticks, orders, wallets, req, sweeper>>

\* One turn of the `while True` loop of monitor_address that finds a
\* transaction to the address.  BTC skips a txid it has checked before.
MonitorPoll(w) ==
  /\ worker[w].op = "monitor_crypto_payment"
  /\ \E txid \in TxHashes, value \in TxValues(worker[w].payment.crypto_amount) :
       LET btc == worker[w].payment.crypto_currency = "BTC"
       IN  /\ btc => txid \notin worker[w].checked_txs
           /\ IF AmountAccepted(value, worker[w].payment.crypto_amount)
              THEN payment_detected(w, txid)
              ELSE /\ btc
                   /\ worker' = [worker EXCEPT ![w].checked_txs = @ \cup {txid}]
                   /\ UNCHANGED <<stock, ledger, now, ticks, orders, payments, wallets, queue,
                                  req, sweeper, hist>>

\* A ledger call of monitor_address raises.  The BTC loop catches it and polls
\* again; the ETH loop lets it out, and monitor_crypto_payment's handler sends
\* the task again (countdown=30).
MonitorError(w) ==
  /\ worker[w].op = "monitor_crypto_payment"
  /\ worker[w].payment.crypto_currency # "BTC"
  /\ QueueRoom(1)
  /\ queue' = Enqueue(queue, Task("monitor_crypto_payment", worker[w].payment_id))
  /\ worker' = [worker EXCEPT ![w] = Idle]
  /\ UNCHANGED <<stock, ledger, now, ticks, orders, payments, wallets, req, sweeper, hist>>

monitor_crypto_payment ==
  \E w \in Workers : MonitorStart(w) \/ MonitorPoll(w) \/ MonitorError(w)

\* monitor_transaction_confirmations up to the call of check_transaction.
ConfirmationsStart(w) ==
  /\ FirstFree(worker, w)
  /\ CanStart
  /\ \E t \in BagToSet(queue) :
       /\ t.task = "monitor_transaction_confirmations"
       /\ queue' = Dequeue(t)
       /\ IF t.payment_id \notin PaymentIds
          THEN UNCHANGED worker
          ELSE LET payment == payments[t.payment_id]
               IN  IF payment.status # "processing" \/ payment.transaction_hash = ""
                   THEN UNCHANGED worker
                   ELSE worker' = [worker EXCEPT ![w] =
                          [op |-> "monitor_transaction_confirmations",
                           pc |-> "check_transaction",
                           payment_id |-> t.payment_id, payment |-> payment]]
  /\ UNCHANGED <<stock, ledger, now, ticks, orders, payments, wallets, req, sweeper, hist>>

\* The saved row with a test that asks for more than the required number.
ConfirmationsRowAbove(payment, confirmations) ==
  LET p1 == [payment EXCEPT !.confirmations = confirmations]
  IN  IF confirmations > payment.required_confirmations
      THEN [p1 EXCEPT !.status = "confirmed", !.confirmed_at = now]
      ELSE p1

\* The row monitor_transaction_confirmations saves, from the row it loaded and
\* tx_info['confirmations'].
ConfirmationsRow(payment, confirmations) ==
  LET p1 == [payment EXCEPT !.confirmations = confirmations]
  IN  IF confirmations >= payment.required_confirmations
      THEN [p1 EXCEPT !.status = "confirmed", !.confirmed_at = now]
      ELSE p1

\* The end of the task on None with the payment given up as 'failed'.
ConfirmationsNoneFails(w) ==
  /\ worker[w].op = "monitor_transaction_confirmations"
  /\ payments' = [payments EXCEPT ![worker[w].payment_id].status = "failed"]
  /\ worker' = [worker EXCEPT ![w] = Idle]
  /\ UNCHANGED <<stock, ledger, now, ticks, orders, wallets, queue, req, sweeper, hist>>

\* check_transaction returned None (its own except clause, or no receipt):
\* the task ends and is not sent again.
ConfirmationsNone(w) ==
  /\ worker[w].op = "monitor_transaction_confirmations"
  /\ worker' = [worker EXCEPT ![w] = Idle]
  /\ UNCHANGED <<stock, ledger, now, ticks, orders, payments, wallets, queue, req, sweeper, hist>>

\* The confirming save with the order's items taken from stock again.
ConfirmationsWriteTakesStock(w) ==
  /\ worker[w].op = "monitor_transaction_confirmations"
  /\ QueueRoom(1)
  /\ \E confirmations \in 0..MaxConfirmations :
       LET pid == worker[w].payment_id
           row == ConfirmationsRow(worker[w].payment, confirmations)
       IN  /\ payments' = [payments EXCEPT ![pid] = row]
           /\ hist' = Wrote(hist, pid, NoPayload)
           /\ IF row.status = "confirmed"
              THEN /\ orders' = MarkOrderPaid(row.order)
                   /\ stock' = [stock EXCEPT ![orders[row.order].product] =
                                               @ - orders[row.order].quantity]
                   /\ queue' = Enqueue(queue,
                                  Task("send_payment_confirmation_email", pid))
              ELSE /\ orders' = orders
                   /\ stock' = stock
                   /\ queue' = Enqueue(queue,
                                  Task("monitor_transaction_confirmations", pid))
  /\ worker' = [worker EXCEPT ![w] = Idle]
  /\ UNCHANGED <<ledger, now, ticks, wallets, req, sweeper>>

\* check_transaction returned tx_info.
ConfirmationsWrite(w) ==
  /\ worker[w].op = "monitor_transaction_confirmations"
  /\ QueueRoom(1)
  /\ \E confirmations \in 0..MaxConfirmations :
       LET pid == worker[w].payment_id
           row == ConfirmationsRow(worker[w].payment, confirmations)
       IN  /\ payments' = [payments EXCEPT ![pid] = row]
           /\ hist' = Wrote(hist, pid, NoPayload)
           /\ IF row.status = "confirmed"
              THEN /\ orders' = MarkOrderPaid(row.order)
                   /\ queue' = Enqueue(queue,
                                  Task("send_payment_confirmation_email", pid))
              ELSE /\ orders' = orders
                   /\ queue' = Enqueue(queue,
                                  Task("monitor_transaction_confirmations", pid))
  /\ worker' = [worker EXCEPT ![w] = Idle]
  /\ UNCHANGED <<stock, ledger, now, ticks, wallets, req, sweeper>>

monitor_transaction_confirmations ==
  \E w \in Workers :
    ConfirmationsStart(w) \/ ConfirmationsNone(w) \/ ConfirmationsWrite(w)

\* send_payment_confirmation_email: loads the payment and logs.
send_payment_confirmation_email ==
  /\ \E w \in Workers : worker[w] = Idle
  /\ \E t \in BagToSet(queue) :
       /\ t.task = "send_payment_confirmation_email"
       /\ queue' = Dequeue(t)
  /\ UNCHANGED <<stock, ledger, now, ticks, orders, payments, wallets, worker, req, sweeper, hist>>

---------------------------------------------------------------------------
\* check_expired_payments, the periodic sweep.
\* 1. the queryset is evaluated when the loop starts: the rows with
\*    status='pending' and expires_at < now, newest first (Meta.ordering);
\* 2. one turn of the loop per row: save() and wallets.update().

\* Mutant: the sweep's filter without status='pending'.
RECURSIVE PastExpiryRows(_)
PastExpiryRows(n) ==
  IF n = 0 THEN <<>>
  ELSE IF payments[n].expires_at < now
       THEN <<[payment_id |-> n, payment |-> payments[n]]>> \o PastExpiryRows(n - 1)
       ELSE PastExpiryRows(n - 1)

RECURSIVE ExpiredRows(_)
ExpiredRows(n) ==
  IF n = 0 THEN <<>>
  ELSE IF payments[n].status = "pending" /\ payments[n].expires_at < now
       THEN <<[payment_id |-> n, payment |-> payments[n]]>> \o ExpiredRows(n - 1)
       ELSE ExpiredRows(n - 1)

SweepRead ==
  /\ sweeper = <<>>
  /\ CanStart
  /\ sweeper' = ExpiredRows(Len(payments))
  /\ UNCHANGED <<stock, ledger, now, ticks, orders, payments, wallets, queue, worker, req,
                 hist>>

\* payment.wallets.update(is_used=False)
ReleaseWallets(pid) ==
  [w \in 1..Len(wallets) |->
     IF wallets[w].payment = pid THEN [wallets[w] EXCEPT !.is_used = FALSE]
     ELSE wallets[w]]

\* The loop's turn without the assignment of status.
SweepWriteKeepsStatus ==
  /\ sweeper # <<>>
  /\ LET pid == Head(sweeper).payment_id
         row == Head(sweeper).payment
     IN  /\ payments' = [payments EXCEPT ![pid] = row]
         /\ wallets' = ReleaseWallets(pid)
         /\ hist' = Wrote(hist, pid, NoPayload)
  /\ sweeper' = Tail(sweeper)
  /\ UNCHANGED <<stock, ledger, now, ticks, orders, queue, worker, req>>

SweepWrite ==
  /\ sweeper # <<>>
  /\ LET pid == Head(sweeper).payment_id
         row == [Head(sweeper).payment EXCEPT !.status = "expired"]
     IN  /\ payments' = [payments EXCEPT ![pid] = row]
         /\ wallets' = ReleaseWallets(pid)
         /\ hist' = Wrote(hist, pid, NoPayload)
  /\ sweeper' = Tail(sweeper)
  /\ UNCHANGED <<stock, ledger, now, ticks, orders, queue, worker, req>>

check_expired_payments == SweepRead \/ SweepWrite

---------------------------------------------------------------------------
Next ==
  \/ Tick
  \/ initiate_payment
  \/ payment_webhook
  \/ simulate_payment
  \/ Respond
  \/ monitor_crypto_payment
  \/ monitor_transaction_confirmations
  \/ send_payment_confirmation_email
  \/ check_expired_payments

Spec == Init /\ [][Next]_vars

\* The operations that create payments or run without a watcher: checkout of
\* a payment, the clock and the sweep.
NextInitiate ==
  \/ Tick
  \/ initiate_payment
  \/ Respond
  \/ check_expired_payments

SpecInitiate == Init /\ [][NextInitiate]_vars

\* Fail(payment_id, reason): an operator sets a pending or processing payment
\* to 'failed'.  No code of the application does this; the status and the
\* test for it in initiate_payment exist for it.
fail_payment ==
  /\ \E p \in PaymentIds :
       /\ payments[p].status \in {"pending", "processing"}
       /\ payments' = [payments EXCEPT ![p].status = "failed"]
       /\ hist' = Wrote(hist, p, NoPayload)
  /\ UNCHANGED <<stock, ledger, now, ticks, orders, wallets, queue, worker, req, sweeper>>

\* Checkout of a payment with an operator who can fail payments.
NextReinitiate ==
  \/ Tick
  \/ initiate_payment
  \/ Respond
  \/ check_expired_payments
  \/ fail_payment

SpecReinitiate == Init /\ [][NextReinitiate]_vars

\* The sweep next to the task that moves a payment to 'processing':
\* checkout, the clock, monitor_crypto_payment and the sweep.
NextSweep ==
  \/ Tick
  \/ initiate_payment
  \/ Respond
  \/ monitor_crypto_payment
  \/ check_expired_payments

SpecSweep == Init /\ [][NextSweep]_vars

---------------------------------------------------------------------------
\* Orders: checkout and cancellation (apps/orders/api.py).

\* The carts a checkout can find: no cart row ("none"), or a cart of one
\* item with a quantity (0: the cart is empty) and the item's subtotal.
Carts ==
  {[cart |-> "none"]}
    \cup [cart : {"items"}, product : Products, quantity : 0..MaxQuantity,
          subtotal : OrderSubtotals]

\* POST /orders/checkout (create_order).  The view answers 404 without a
\* cart, 400 for an empty cart and 400 when an item's quantity exceeds the
\* product's stock.  Past these checks it builds the totals and calls
\* Order.objects.create(user=..., **data.dict(), subtotal=..., ...):
\* data.dict() holds the schema's required field `items`, which names the
\* reverse side of OrderItem.order (related_name='items'), and Django's
\* Model.__init__ raises TypeError on assigning it.  The exception leaves
\* the view before any row is written (@transaction.atomic rolls back) and
\* the request ends in a 500: no order, no order item, no change of stock.
create_order ==
  /\ \E c \in Clients :
       /\ FirstFree(req, c)
       /\ CanStart
       /\ \E cart \in Carts :
            req' = [req EXCEPT ![c] =
              IF cart.cart = "none" THEN Response("create_order", 404)
              ELSE IF cart.quantity = 0 THEN Response("create_order", 400)
              ELSE IF stock[cart.product] < cart.quantity
              THEN Response("create_order", 400)
              ELSE Response("create_order", 500)]
  /\ UNCHANGED <<stock, ledger, now, ticks, orders, payments, wallets, queue, worker,
                 sweeper, hist>>

\* PUT /orders/{order_id}/cancel (cancel_order) up to its status check: the
\* order is loaded; an order that is not 'pending' or 'processing' is
\* answered 400.
CancelRead(c) ==
  /\ FirstFree(req, c)
  /\ CanStart
  /\ \E order_id \in 1..(NumOrders + 1) :
       req' = [req EXCEPT ![c] =
         IF order_id \notin Orders
         THEN Response("cancel_order", 404)               \* get_object_or_404
         ELSE IF orders[order_id].status \notin {"pending", "processing"}
         THEN Response("cancel_order", 400)
         ELSE [op |-> "cancel_order", pc |-> "write", order_id |-> order_id,
               order |-> orders[order_id]]]
  /\ UNCHANGED <<stock, ledger, now, ticks, orders, payments, wallets, queue, worker,
                 sweeper, hist>>

\* The rest of cancel_order: the stock of each item's product is raised by
\* the item's quantity, and the order object loaded at the start is saved
\* with status 'cancelled'.
CancelWrite(c) ==
  /\ req[c].op = "cancel_order" /\ req[c].pc = "write"
  /\ LET order == req[c].order
     IN  /\ stock' = [stock EXCEPT ![order.product] = @ + order.quantity]
         /\ orders' = [orders EXCEPT ![req[c].order_id] =
                         [order EXCEPT !.status = "cancelled"]]
  /\ req' = [req EXCEPT ![c] = Response("cancel_order", 200)]
  /\ UNCHANGED <<ledger, now, ticks, payments, wallets, queue, worker, sweeper,
                 hist>>

cancel_order == \E c \in Clients : CancelRead(c) \/ CancelWrite(c)

\* Orders next to payments with the operations run one at a time: a
\* request, a task or the sweep starts only when no other is under way, and
\* runs to its end (a request to its response being sent) before the next
\* starts.
NextSerial ==
  \/ Tick
  \/ InFlight = 0 /\ create_order
  \/ InFlight = 0 /\ \E c \in Clients : CancelRead(c)
  \/ InFlight = 0 /\ \E c \in Clients : InitiateCheck(c)
  \/ InFlight = 0 /\ \E c \in Clients : WebhookRead(c)
  \/ InFlight = 0 /\ \E w \in Workers : MonitorStart(w)
  \/ InFlight = 0 /\ \E w \in Workers : ConfirmationsStart(w)
  \/ InFlight = 0 /\ send_payment_confirmation_email
  \/ InFlight = 0 /\ SweepRead
  \/ \E c \in Clients : CancelWrite(c)
  \/ \E c \in Clients : InitiateCreate(c) \/ InitiateCommit(c)
  \/ \E c \in Clients : WebhookWrite(c)
  \/ \E w \in Workers : MonitorPoll(w) \/ MonitorError(w)
  \/ \E w \in Workers : ConfirmationsNone(w) \/ ConfirmationsWrite(w)
  \/ SweepWrite
  \/ Respond

SpecSerial == Init /\ [][NextSerial]_vars

\* Checkout and cancellation on their own, requests of different clients
\* interleaved: the views hold no lock on the order or on the product.
NextOrders ==
  \/ create_order
  \/ cancel_order
  \/ Respond

SpecOrders == Init /\ [][NextOrders]_vars

---------------------------------------------------------------------------
\* The ledger made explicit.  In Spec a poll of monitor_address may find any
\* transaction; here the chain has a height and holds at most one
\* transaction, the customer's, and the processors' loops read it as their
\* code does.

LedgerTx == "h1"        \* the txid of the customer's transaction

\* The values a customer's transaction can carry, around the tolerance of
\* the amount test: 98%, one unit under 99%, 99%, 99.5%, 100% and 101% of
\* the expected amount.
LedgerValues(expected) ==
  {expected - expected \div 50, expected - expected \div 100 - 1,
   expected - expected \div 100, expected - expected \div 200, expected,
   expected + expected \div 100}

\* The customer pays a pending, unexpired payment, after every
\* initiate_payment that succeeded has sent its response: the transaction to
\* the payment's address is mined in the next block, which is not the last
\* one.
SendTransaction ==
  /\ ledger.tx_block = 0
  /\ ledger.height + 1 < MaxBlocks
  /\ \A c \in Clients : req[c] # Response("initiate_payment", 200)
  /\ \E p \in PaymentIds :
       /\ payments[p].status = "pending" /\ ~(payments[p].expires_at < now)
       /\ \E value \in LedgerValues(payments[p].crypto_amount) :
            ledger' = [ledger EXCEPT !.height = @ + 1,
                                     !.tx_block = ledger.height + 1,
                                     !.to = payments[p].wallet_address,
                                     !.value = value]
  /\ UNCHANGED <<stock, now, ticks, orders, payments, wallets, queue, worker, req,
                 sweeper, hist>>

\* A block without transactions to any payment address is mined.
MineBlock ==
  /\ ledger.height < MaxBlocks
  /\ ledger' = [ledger EXCEPT !.height = @ + 1]
  /\ UNCHANGED <<stock, now, ticks, orders, payments, wallets, queue, worker, req,
                 sweeper, hist>>

\* The value of the customer's transaction as the loop in slot w reads it
\* (output.value, tx['value']) in the unit of the payment's crypto_amount.
LedgerValue(w) == ledger.value

\* One turn of EthereumPaymentProcessor.monitor_address that sees new blocks:
\* the blocks last_block+1..current_block are searched for a transaction to
\* the address; without a match last_block moves to current_block.
eth_monitor_address(w) ==
  /\ worker[w].op = "monitor_crypto_payment"
  /\ worker[w].payment.crypto_currency # "BTC"
  /\ LET current_block == ledger.height
         last_block == worker[w].last_block
     IN  /\ current_block > last_block
         /\ IF /\ ledger.tx_block \in (last_block + 1)..current_block
               /\ ledger.to = worker[w].payment.wallet_address
               /\ AmountAccepted(LedgerValue(w), worker[w].payment.crypto_amount)
            THEN payment_detected(w, LedgerTx)
            ELSE /\ worker' = [worker EXCEPT ![w].last_block = current_block]
                 /\ UNCHANGED <<stock, ledger, now, ticks, orders, payments, wallets,
                                queue, req, sweeper, hist>>

\* One turn of BitcoinPaymentProcessor.monitor_address that finds a
\* transaction it has not checked: getaddresstxs lists every transaction of
\* the address.
btc_monitor_address(w) ==
  /\ worker[w].op = "monitor_crypto_payment"
  /\ worker[w].payment.crypto_currency = "BTC"
  /\ ledger.tx_block # 0
  /\ ledger.to = worker[w].payment.wallet_address
  /\ LedgerTx \notin worker[w].checked_txs
  /\ IF AmountAccepted(LedgerValue(w), worker[w].payment.crypto_amount)
     THEN payment_detected(w, LedgerTx)
     ELSE /\ worker' = [worker EXCEPT ![w].checked_txs = @ \cup {LedgerTx}]
          /\ UNCHANGED <<stock, ledger, now, ticks, orders, payments, wallets, queue,
                         req, sweeper, hist>>

\* The countdown of the task monitor_crypto_payment sends after an exception,
\* and the sleep that ends every turn of the BTC loop, in seconds.
RetryCountdown == 30
BtcPollSeconds == 30

\* A call to the Ethereum node raises in monitor_address: the exception
\* leaves the loop and monitor_crypto_payment sends itself again with the
\* countdown; ledger.delays records the delays of the attempts that follow a
\* failed ledger read.
LedgerMonitorError(w) ==
  /\ worker[w].op = "monitor_crypto_payment"
  /\ worker[w].payment.crypto_currency # "BTC"
  /\ ledger.faults > 0
  /\ QueueRoom(1)
  /\ ledger' = [ledger EXCEPT !.faults = @ - 1,
                              !.delays = Append(@, RetryCountdown)]
  /\ queue' = Enqueue(queue, Task("monitor_crypto_payment", worker[w].payment_id))
  /\ worker' = [worker EXCEPT ![w] = Idle]
  /\ UNCHANGED <<stock, now, ticks, orders, payments, wallets, req, sweeper, hist>>

\* getaddresstxs raises in the BTC loop: the loop logs the exception, sleeps
\* and takes its next turn; the task stays in its worker.
btc_monitor_error(w) ==
  /\ worker[w].op = "monitor_crypto_payment"
  /\ worker[w].payment.crypto_currency = "BTC"
  /\ ledger.faults > 0
  /\ ledger' = [ledger EXCEPT !.faults = @ - 1,
                              !.delays = Append(@, BtcPollSeconds)]
  /\ UNCHANGED <<stock, now, ticks, orders, payments, wallets, queue, worker, req,
                 sweeper, hist>>

NextLedger ==
  \/ initiate_payment
  \/ Respond
  \/ SendTransaction
  \/ MineBlock
  \/ \E w \in Workers : MonitorStart(w)
  \/ \E w \in Workers : eth_monitor_address(w)
  \/ \E w \in Workers : btc_monitor_address(w)
  \/ \E w \in Workers : LedgerMonitorError(w)
  \/ \E w \in Workers : btc_monitor_error(w)

\* Scheduling: a view that has started runs to its response; a Celery worker
\* takes a queued task however often requests come and go (strong fairness);
\* a running monitor_address loop takes its next turn; the chain grows.
SpecLedger ==
  /\ Init /\ [][NextLedger]_vars
  /\ WF_vars(\E c \in Clients : InitiateCreate(c) \/ InitiateCommit(c))
  /\ WF_vars(Respond)
  /\ SF_vars(\E w \in Workers : MonitorStart(w))
  /\ WF_vars(\E w \in Workers : eth_monitor_address(w))
  /\ WF_vars(\E w \in Workers : btc_monitor_address(w))
  /\ WF_vars(MineBlock)

\* The watcher's tasks under ledger reads that fail: checkout, the two
\* monitoring tasks, the e-mail task and the failing reads of both loops.
NextWatcher ==
  \/ initiate_payment
  \/ Respond
  \/ monitor_crypto_payment
  \/ monitor_transaction_confirmations
  \/ send_payment_confirmation_email
  \/ \E w \in Workers : LedgerMonitorError(w)
  \/ \E w \in Workers : btc_monitor_error(w)

SpecWatcher == Init /\ [][NextWatcher]_vars

\* Webhooks next to checkout: initiate_payment, payment_webhook and the
\* e-mail task.
NextWebhook ==
  \/ initiate_payment
  \/ payment_webhook
  \/ Respond
  \/ send_payment_confirmation_email

SpecWebhook == Init /\ [][NextWebhook]_vars

---------------------------------------------------------------------------
\* A handler run from its first to its last statement with nothing in
\* between, on one payment and its order: s = [payment |-> row, order |-> row].

\* payment.order.status = 'paid'; payment.order.paid_at = now, on the row.
PaidOrder(order) == [order EXCEPT !.status = "paid", !.paid_at = now]

\* payment_webhook with payload data.
ApplyWebhook(s, data) ==
  [payment |-> WebhookRow(s.payment, data),
   order |-> IF data.confirmations >= s.payment.required_confirmations
             THEN PaidOrder(s.order) ELSE s.order]

\* monitor_crypto_payment whose monitor_address finds tx_hash.
ApplyDetected(s, tx_hash) ==
  IF s.payment.status # "pending" \/ s.payment.expires_at < now
  THEN s
  ELSE [s EXCEPT !.payment.transaction_hash = tx_hash,
                 !.payment.status = "processing"]

\* monitor_transaction_confirmations whose check_transaction reports
\* confirmations.
ApplyCount(s, confirmations) ==
  IF s.payment.status # "processing" \/ s.payment.transaction_hash = ""
  THEN s
  ELSE [payment |-> ConfirmationsRow(s.payment, confirmations),
        order |-> IF confirmations >= s.payment.required_confirmations
                  THEN PaidOrder(s.order) ELSE s.order]

---------------------------------------------------------------------------
\* Properties.

TerminalStatuses == {"confirmed", "expired", "failed"}

\* The step is the second step of payment_webhook in slot c.
IsWebhookWrite(c) ==
  req[c].op = "payment_webhook" /\ req[c].pc = "write" /\ req'[c] # req[c]

\* The step is a turn of the sweep's loop.
IsSweepWrite == sweeper # <<>> /\ sweeper' = Tail(sweeper)

\* The step ends the task in worker slot w.
IsTaskEnd(w) == worker[w] # Idle /\ worker'[w] = Idle

\* C1: every change of a payment's status follows one of the edges
\* pending->processing, processing->confirmed, pending->expired,
\* pending->failed, processing->failed.
StatusEdges ==
  {<<"pending", "processing">>, <<"processing", "confirmed">>,
   <<"pending", "expired">>, <<"pending", "failed">>, <<"processing", "failed">>}
C1_StatusFollowsEdges ==
  [][\A p \in PaymentIds :
       payments'[p].status # payments[p].status
         => <<payments[p].status, payments'[p].status>> \in StatusEdges]_vars

\* C2: the stored confirmation count of a payment never decreases.
C2_ConfirmationsMonotonic ==
  [][\A p \in PaymentIds :
       payments'[p].confirmations >= payments[p].confirmations]_vars

\* C3: every order has at most one payment whose status is not 'failed'.
C3_OneActivePaymentPerOrder ==
  \A o \in Orders :
    Cardinality({p \in PaymentsOf(o) : payments[p].status # "failed"}) <= 1

\* C3's case: a payment exists and a second initiate_payment for its order,
\* which passed the check before the first committed, has been answered.
C3_Witness ==
  /\ \E p \in PaymentIds : payments[p].status # "failed"
  /\ \E c \in Clients : req[c] = Response("initiate_payment", 500)

\* C4: a webhook delivered again with the payload of the delivery that last
\* wrote the payment, and read after that delivery, leaves the payment and
\* its order as the first delivery left them.
C4_WebhookIdempotent ==
  [][\A c \in Clients :
       IsWebhookWrite(c) =>
         LET pid == req[c].payment_id
         IN  ( /\ hist[pid].delivered # NoPayload
               /\ hist'[pid].delivered = hist[pid].delivered
               /\ req[c].payment = Loaded(payments[pid]) )
             => /\ payments'[pid] = payments[pid]
                /\ orders' = orders]_vars

\* C5: once the watcher has recorded a transaction and the payment is
\* 'processing', no turn of the sweep sets it to 'expired' or writes its
\* wallets.
C5_ObservationWins ==
  [][IsSweepWrite =>
       LET pid == Head(sweeper).payment_id
       IN  (payments[pid].status = "processing"
              /\ payments[pid].transaction_hash # "")
           => /\ payments'[pid].status # "expired"
              /\ wallets' = wallets]_vars

\* C6: once a payment is confirmed, expired or failed, its transaction_hash,
\* confirmations and confirmed_at never change.
C6_TerminalImmutable ==
  [][\A p \in PaymentIds :
       payments[p].status \in TerminalStatuses
         => /\ payments'[p].transaction_hash = payments[p].transaction_hash
            /\ payments'[p].confirmations = payments[p].confirmations
            /\ payments'[p].confirmed_at = payments[p].confirmed_at]_vars

\* C7: a webhook whose transaction_hash differs from the non-empty hash
\* recorded on the payment leaves the payment's transaction_hash,
\* confirmations and status unchanged.
C7_ForeignHashRejected ==
  [][\A c \in Clients :
       IsWebhookWrite(c) =>
         LET pid == req[c].payment_id
         IN  ( /\ payments[pid].transaction_hash # ""
               /\ hist'[pid].delivered.transaction_hash
                    # payments[pid].transaction_hash )
             => /\ payments'[pid].transaction_hash = payments[pid].transaction_hash
                /\ payments'[pid].confirmations = payments[pid].confirmations
                /\ payments'[pid].status = payments[pid].status]_vars

\* C8: when a watcher task writes a payment that was written by someone else
\* since the task read it, the write does not put back the status,
\* transaction_hash or confirmations the task read.
C8_NoLostUpdate ==
  [][\A w \in Workers :
       IsTaskEnd(w) =>
         LET pid == worker[w].payment_id
             read == worker[w].payment
         IN  /\ payments[pid].status # read.status
                  => payments'[pid].status # read.status
             /\ payments[pid].transaction_hash # read.transaction_hash
                  => payments'[pid].transaction_hash # read.transaction_hash
             /\ payments[pid].confirmations # read.confirmations
                  => payments'[pid].confirmations # read.confirmations]_vars

\* C9: a payment on which a transaction hash has been recorded has its
\* wallets marked used.
C9_ObservedWalletUsed ==
  \A p \in PaymentIds :
    payments[p].transaction_hash # ""
      => \A w \in WalletsOf(p) : wallets[w].is_used

\* C10: a payment with status 'pending' has an empty transaction_hash.
C10_PendingHasNoHash ==
  \A p \in PaymentIds :
    payments[p].status = "pending" => payments[p].transaction_hash = ""

\* The step is the second step of payment_webhook or the end of a
\* monitor_transaction_confirmations task, on payment p.
IsEvidenceStep(p) ==
  \/ \E c \in Clients : IsWebhookWrite(c) /\ req[c].payment_id = p
  \/ \E w \in Workers :
       /\ IsTaskEnd(w)
       /\ worker[w].op = "monitor_transaction_confirmations"
       /\ worker[w].payment_id = p

PaidOrBeyond == {"paid", "shipped", "delivered"}

\* C11: when a webhook delivery or a confirmation poll has completed and the
\* payment is 'confirmed', its confirmations are at least its
\* required_confirmations, its confirmed_at is set, and its order is paid (or
\* beyond) with paid_at set.
C11_ConfirmedIsComplete ==
  [][\A p \in PaymentIds :
       (IsEvidenceStep(p) /\ payments'[p].status = "confirmed")
         => /\ payments'[p].confirmations >= payments'[p].required_confirmations
            /\ payments'[p].confirmed_at # NoTime
            /\ orders'[payments'[p].order].status \in PaidOrBeyond
            /\ orders'[payments'[p].order].paid_at # NoTime]_vars

\* C12: a webhook delivery or a confirmation poll on a payment whose order is
\* already paid, shipped or delivered leaves the order's status and paid_at
\* unchanged.
C12_MarkPaidIdempotent ==
  [][\A p \in PaymentIds :
       (IsEvidenceStep(p) /\ orders[payments[p].order].status \in PaidOrBeyond)
         => /\ orders'[payments[p].order].status = orders[payments[p].order].status
            /\ orders'[payments[p].order].paid_at
                 = orders[payments[p].order].paid_at]_vars

\* C13: evidence about one transaction of a payment, applied through
\* payment_webhook and through the watcher tasks, gives the same payment and
\* order in either order of application.
C13_EvidenceCommutes ==
  \A p \in PaymentIds :
    LET s == [payment |-> payments[p], order |-> orders[payments[p].order]]
    IN  \A data \in WebhookPayloads(p) :
          /\ \A confirmations \in 0..MaxConfirmations :
                data.transaction_hash = s.payment.transaction_hash
                  => ApplyCount(ApplyWebhook(s, data), confirmations)
                       = ApplyWebhook(ApplyCount(s, confirmations), data)
          /\ ApplyDetected(ApplyWebhook(s, data), data.transaction_hash)
               = ApplyWebhook(ApplyDetected(s, data.transaction_hash), data)

\* C14: a webhook whose amount is below the accepted tolerance of the
\* payment's crypto_amount leaves the payment's transaction_hash,
\* confirmations and status unchanged and does not touch the orders.
C14_WebhookAmountValidated ==
  [][\A c \in Clients :
       IsWebhookWrite(c) =>
         LET pid == req[c].payment_id
         IN  ~AmountAccepted(hist'[pid].delivered.amount,
                             payments[pid].crypto_amount)
             => /\ payments'[pid].transaction_hash = payments[pid].transaction_hash
                /\ payments'[pid].confirmations = payments[pid].confirmations
                /\ payments'[pid].status = payments[pid].status
                /\ orders' = orders]_vars

\* The payments of order o that are not 'failed'.
ActivePayments(o) == {p \in PaymentsOf(o) : payments[p].status # "failed"}

\* The step is a step of initiate_payment in slot c on order o: the check
\* letting the request through, the INSERTs, or the commit.
IsInitiateStepOn(c, o) ==
  \/ /\ req[c] = Idle
     /\ req'[c].op = "initiate_payment" /\ req'[c].pc = "create"
     /\ req'[c].order_id = o
  \/ /\ req[c].op = "initiate_payment" /\ req[c].pc = "create"
     /\ req[c].order_id = o
     /\ req'[c] # req[c]
  \/ /\ req[c].op = "initiate_payment" /\ req[c].pc = "commit"
     /\ req[c].payment.order = o
     /\ req'[c] # req[c]

\* C15: initiate_payment on an order that has a payment whose status is not
\* 'failed' answers with an error and changes nothing: no payment and no
\* wallet is created, the payments are unchanged, no task is sent.
C15_DuplicateRejected ==
  [][\A c \in Clients, o \in Orders :
       (ActivePayments(o) # {} /\ IsInitiateStepOn(c, o))
         => /\ req'[c].pc = "respond"
            /\ req'[c].status \in {400, 500}
            /\ payments' = payments
            /\ wallets' = wallets
            /\ queue' = queue]_vars

\* C15's case: an order has a payment and an initiate_payment for it has been
\* answered 400.
C15_Witness ==
  /\ \E o \in Orders : ActivePayments(o) # {}
  /\ \E c \in Clients : req[c] = Response("initiate_payment", 400)

\* C16: initiate_payment on an order whose payment is 'failed', with no other
\* request for the order under way, is not answered with an error: it goes on
\* to create a new pending payment and wallet.
C16_FailedDoesNotBlock ==
  [][\A c \in Clients, o \in Orders :
       ( /\ PaymentsOf(o) # {} /\ ActivePayments(o) = {}
         /\ \A d \in Clients \ {c} : req[d] = Idle \/ req[d].pc = "respond"
         /\ IsInitiateStepOn(c, o) )
         => ~(req'[c].pc = "respond" /\ req'[c].status # 200)]_vars

\* The payments a sweep has read and has yet to write.
SweptIds(rows) == {rows[i].payment_id : i \in 1..Len(rows)}

\* C17: a sweep that starts when a payment is 'processing' does not select
\* it, whatever its expires_at, and a turn of the sweep's loop leaves every
\* payment the sweep did not select, its order and its wallets unchanged.
C17_SweepSkipsProcessing ==
  [][\A p \in PaymentIds :
       /\ payments[p].status = "processing"
            => p \notin SweptIds(ExpiredRows(Len(payments)))
       /\ (IsSweepWrite /\ p \notin SweptIds(sweeper))
            => /\ payments'[p] = payments[p]
               /\ orders' = orders
               /\ \A w \in WalletsOf(p) : wallets'[w] = wallets[w]]_vars

\* C17's case: a payment is 'processing' with its expires_at in the past
\* while the sweep is at rest and free to run.
C17_Witness ==
  /\ sweeper = <<>> /\ CanStart
  /\ \E p \in PaymentIds :
       /\ payments[p].status = "processing"
       /\ payments[p].expires_at < now

\* The step is a turn of monitor_address's loop in worker slot w.
IsMonitorTurn(w) ==
  worker[w].op = "monitor_crypto_payment" /\ worker'[w] # worker[w]

\* C18: once the payment of a monitoring task is confirmed, expired or
\* failed, or its expires_at has passed, a turn of the task's loop that
\* finds no matching transaction ends the task: it does not go on polling.
C18_MonitorStops ==
  [][\A w \in Workers :
       IsMonitorTurn(w) =>
         LET pid == worker[w].payment_id
         IN  ( /\ \/ payments[pid].status \in TerminalStatuses
                  \/ payments[pid].expires_at < now
               /\ payments' = payments )
             => worker'[w] = Idle]_vars

\* C19: while a payment is 'processing' the watcher keeps tracking it: when a
\* monitor_transaction_confirmations task ends, because check_transaction
\* gave no result or too few confirmations, and leaves the payment
\* 'processing', the task has been sent again.  (Without that no later report
\* of the ledger can reach the payment.)
C19_ConfirmationWatchSurvives ==
  [][\A w \in Workers :
       ( /\ IsTaskEnd(w)
         /\ worker[w].op = "monitor_transaction_confirmations"
         /\ payments'[worker[w].payment_id].status = "processing" )
         => Task("monitor_transaction_confirmations", worker[w].payment_id)
              \in BagToSet(queue')]_vars

\* A monitor_crypto_payment task for payment p is queued or running.
Watched(p) ==
  \/ Task("monitor_crypto_payment", p) \in BagToSet(queue)
  \/ \E w \in Workers :
       worker[w].op = "monitor_crypto_payment" /\ worker[w].payment_id = p

\* C20: a transaction of the full amount sent to the address of a pending,
\* unexpired payment whose monitoring task is queued or running is
\* eventually observed: the payment gets its hash and has moved to
\* 'processing'.
C20_TransactionObserved ==
  \A p \in 1..NumOrders :
    ( /\ p \in PaymentIds
      /\ ledger.tx_block # 0
      /\ ledger.to = payments[p].wallet_address
      /\ ledger.value = payments[p].crypto_amount
      /\ Watched(p) )
    ~> ( /\ p \in PaymentIds
         /\ payments[p].transaction_hash = LedgerTx
         /\ payments[p].status = "processing" )

\* The step is the sweep's query: the sweep was at rest and now holds rows.
IsSweepRead == sweeper = <<>> /\ sweeper' # <<>>

\* C21: a run of check_expired_payments that starts after the expires_at of
\* a payment still 'pending' selects that payment (and only such payments),
\* and the turn of its loop on a selected payment leaves the payment
\* 'expired' and every wallet of the payment with is_used = FALSE.
C21_SweepExpiresPending ==
  [][/\ IsSweepRead
          => SweptIds(sweeper') =
               {p \in PaymentIds : /\ payments[p].status = "pending"
                                   /\ payments[p].expires_at < now}
     /\ IsSweepWrite
          => LET pid == Head(sweeper).payment_id
             IN  /\ payments'[pid].status = "expired"
                 /\ \A w \in WalletsOf(pid) : ~wallets'[w].is_used]_vars

\* C21's case: the sweep has run to its end after the window of a payment
\* that nothing was observed for, and the payment is 'expired'.
C21_Witness ==
  /\ sweeper = <<>>
  /\ \E p \in PaymentIds :
       /\ payments[p].status = "expired"
       /\ payments[p].transaction_hash = ""
       /\ payments[p].expires_at < now
       /\ WalletsOf(p) # {}
       /\ \A w \in WalletsOf(p) : ~wallets[w].is_used

\* C22: under a ledger that keeps failing, every attempt of the watcher
\* that follows a failed read waits longer than the attempt before it.
C22_RetryDelayGrows ==
  \A i \in 1..(Len(ledger.delays) - 1) : ledger.delays[i + 1] > ledger.delays[i]

\* The step ends a task on a failed ledger read: monitor_crypto_payment ends
\* by sending itself again, monitor_transaction_confirmations ends without
\* sending anything, or the BTC loop records the delay of its next turn.
IsLedgerErrorStep ==
  \/ \E w \in Workers :
       /\ IsTaskEnd(w)
       /\ \/ /\ worker[w].op = "monitor_crypto_payment"
             /\ queue' = Enqueue(queue, Task("monitor_crypto_payment",
                                             worker[w].payment_id))
          \/ /\ worker[w].op = "monitor_transaction_confirmations"
             /\ queue' = queue
  \/ Len(ledger'.delays) > Len(ledger.delays)

\* C23: a step in which a ledger read fails changes no payment (status,
\* transaction_hash and confirmations stay as they were, so no payment
\* becomes 'failed') and no order.
C23_LedgerErrorKeepsPayment ==
  [][IsLedgerErrorStep => payments' = payments /\ orders' = orders]_vars

\* C23's case: check_transaction failed for a payment that is 'processing':
\* the payment is still 'processing' and no task watches it any more.
C23_Witness ==
  \E p \in PaymentIds :
    /\ payments[p].status = "processing"
    /\ \A t \in BagToSet(queue) : t.payment_id # p
    /\ \A w \in Workers : worker[w] = Idle

\* The loop in slot w has the customer's transaction before it: the
\* transaction pays the address the loop watches, and the BTC loop has not
\* checked it before or it lies in the blocks the ETH loop reads next.
TxInSight(w) ==
  /\ worker[w].op = "monitor_crypto_payment"
  /\ ledger.tx_block # 0
  /\ ledger.to = worker[w].payment.wallet_address
  /\ IF worker[w].payment.crypto_currency = "BTC"
     THEN LedgerTx \notin worker[w].checked_txs
     ELSE ledger.tx_block \in (worker[w].last_block + 1)..ledger.height

\* C24: a turn of monitor_address (BTC or ETH) that reads a transaction to
\* its address records it, moving the payment to 'processing' with the
\* transaction's hash, exactly when the value is at least 99% of the
\* expected amount; otherwise it changes no payment.  So 99.5% and an
\* overpayment are accepted and 98% is rejected.
C24_ToleranceOnePercent ==
  [][\A w \in Workers :
       ( /\ TxInSight(w)
         /\ worker'[w] # worker[w]
         /\ Len(ledger'.delays) = Len(ledger.delays) )
       => LET pid == worker[w].payment_id
              expected == worker[w].payment.crypto_amount
          IN  IF 100 * ledger.value >= 99 * expected
              THEN /\ payments'[pid].status = "processing"
                   /\ payments'[pid].transaction_hash = LedgerTx
              ELSE payments' = payments]_vars

\* C24's case: a transaction of 99.5% of the expected amount was read and
\* recorded.
C24_Witness ==
  \E p \in PaymentIds :
    /\ ledger.tx_block # 0
    /\ ledger.to = payments[p].wallet_address
    /\ ledger.value = payments[p].crypto_amount - payments[p].crypto_amount \div 200
    /\ payments[p].status = "processing"
    /\ payments[p].transaction_hash = LedgerTx

\* C25: the crypto_amount of every payment was computed at the price of the
\* payment's own crypto_currency.
C25_AmountAtOwnPrice ==
  \A p \in PaymentIds :
    PriceCurrency(payments[p].payment_method) = payments[p].crypto_currency

\* C26: a BTC payment for a total of 49.00 EUR is stored with
\* crypto_amount 0.00140000 BTC (140000 units of 10^-8); while it is
\* pending and unexpired, a transaction of 0.00141 BTC passes the amount
\* test and its detection moves the payment to 'processing'; confirmation
\* polls reading 0 and 1 keep it 'processing' and a poll reading 3, the
\* required number, makes it 'confirmed' with its order 'paid'.  A BTC
\* payment the watcher has confirmed has at least 3 confirmations and a
\* paid order.
C26_BtcScenario ==
  \A p \in PaymentIds :
    LET row == payments[p]
        s0 == [payment |-> row, order |-> orders[row.order]]
        s1 == ApplyDetected(s0, "h1")
        s2 == ApplyCount(s1, 0)
        s3 == ApplyCount(s2, 1)
        s4 == ApplyCount(s3, 3)
    IN  (row.payment_method = "crypto_btc" /\ row.amount = 4900) =>
          /\ row.crypto_amount = 140000
          /\ row.required_confirmations = 3
          /\ (row.status = "pending" /\ ~(row.expires_at < now)) =>
                /\ AmountAccepted(141000, row.crypto_amount)
                /\ s1.payment.status = "processing"
                /\ s1.payment.transaction_hash = "h1"
                /\ s2.payment.status = "processing" /\ s2.payment.confirmations = 0
                /\ s3.payment.status = "processing" /\ s3.payment.confirmations = 1
                /\ s3.order.status = "pending"
                /\ s4.payment.status = "confirmed" /\ s4.payment.confirmations = 3
                /\ s4.order.status = "paid"
          /\ row.status = "confirmed" =>
                /\ row.confirmations >= 3
                /\ orders[row.order].status = "paid"

\* C26's case: the watcher has taken a BTC payment of 0.00140000 BTC through
\* detection to 'confirmed' on a poll that read 3 confirmations.
C26_Witness ==
  \E p \in PaymentIds :
    /\ payments[p].payment_method = "crypto_btc"
    /\ payments[p].crypto_amount = 140000
    /\ payments[p].transaction_hash # ""
    /\ payments[p].status = "confirmed"
    /\ payments[p].confirmations = 3
    /\ orders[payments[p].order].status = "paid"

MonitoringTasks == {"monitor_crypto_payment", "monitor_transaction_confirmations"}

\* The monitoring tasks of payment p that are queued or running.
MonitoringCount(p) ==
  CopiesIn(Task("monitor_crypto_payment", p), queue)
  + CopiesIn(Task("monitor_transaction_confirmations", p), queue)
  + Cardinality({w \in Workers : /\ worker[w].op \in MonitoringTasks
                                 /\ worker[w].payment_id = p})

\* C28: at most one monitoring task is queued or running for a payment id,
\* committed or about to be committed.
C28_OneMonitoringTask ==
  \A p \in 1..(Len(payments) + 1) : MonitoringCount(p) <= 1

\* C28's case: monitor_crypto_payment has handed a payment over: the payment
\* is 'processing' and its monitor_transaction_confirmations task is queued
\* or running.
C28_Witness ==
  \E p \in PaymentIds :
    /\ payments[p].status = "processing"
    /\ MonitoringCount(p) = 1
    /\ \/ Task("monitor_transaction_confirmations", p) \in BagToSet(queue)
       \/ \E w \in Workers : /\ worker[w].op = "monitor_transaction_confirmations"
                              /\ worker[w].payment_id = p

\* C29: payment_webhook's lookup either finds the payment its payload names
\* and goes on with it, or, for an id no payment has, answers 404 with every
\* payment, order and wallet unchanged and no task sent; it ends in no other
\* way.
C29_UnknownPaymentIs404 ==
  [][\A c \in Clients :
       (req[c] = Idle /\ req'[c].op = "payment_webhook") =>
         \/ /\ req'[c].pc = "write"
            /\ req'[c].payment_id \in PaymentIds
         \/ /\ req'[c] = Response("payment_webhook", 404)
            /\ payments' = payments /\ orders' = orders
            /\ wallets' = wallets /\ queue' = queue]_vars

\* C29's case: a webhook for an unknown id has been answered 404 while a
\* payment exists.
C29_Witness ==
  /\ PaymentIds # {}
  /\ \E c \in Clients : req[c] = Response("payment_webhook", 404)

IsCancelWrite(c) ==
  req[c].op = "cancel_order" /\ req[c].pc = "write" /\ req'[c] # req[c]

IsCreateOrder(c) == req[c] = Idle /\ req'[c].op = "create_order"

\* C27: a step changes a product's stock only if it is a step of
\* cancel_order or of create_order: no step of the watcher's tasks, of
\* payment_webhook, of initiate_payment or of the sweep does.
C27_PaymentKeepsStock ==
  [][stock' # stock => \E c \in Clients : IsCancelWrite(c) \/ IsCreateOrder(c)]_vars

\* C27's case: a payment has been confirmed and its order marked paid, and
\* the stock is what it was when the order was placed.
C27_Witness ==
  /\ \E p \in PaymentIds :
       /\ payments[p].status = "confirmed"
       /\ orders[payments[p].order].status = "paid"
  /\ \A p \in Products : stock[p] = InitialStock

\* The amounts of an order row, and the relation between them.
Amounts(order) ==
  <<order.subtotal, order.shipping_cost, order.tax_amount, order.discount_amount,
    order.total>>
TotalAddsUp(order) ==
  order.total = order.subtotal + order.shipping_cost + order.tax_amount
                  - order.discount_amount

\* Subtotals on both sides of the free-shipping threshold, with every
\* residue of the taxed amount modulo 1.00.
CheckedSubtotals == 4900..5099

\* C30: the row create_order computes has total = subtotal + shipping_cost
\* + tax_amount - discount_amount in cents, for the stored orders and for
\* every checked subtotal, and no step of a payment operation, the sweep or
\* cancel_order changes an order's amounts.
C30_TotalAddsUpAndStays ==
  /\ [](/\ \A o \in Orders : TotalAddsUp(orders[o])
        /\ \A subtotal \in CheckedSubtotals : TotalAddsUp(OrderRow(subtotal, 1, 1)))
  /\ [][\A o \in Orders : Amounts(orders'[o]) = Amounts(orders[o])]_vars

\* C30's case: an order with shipping and a tax amount that was rounded has
\* been paid or cancelled, and its amounts still add up.
C30_Witness ==
  \E o \in Orders :
    /\ orders[o].status \in {"paid", "cancelled"}
    /\ orders[o].shipping_cost = ShippingCost
    /\ orders[o].tax_amount * 100 # (orders[o].subtotal + ShippingCost) * TaxPercent
    /\ TotalAddsUp(orders[o])

\* C31: the step of initiate_payment that builds the rows sends exactly one
\* monitor_crypto_payment task for the new payment's id and nothing else,
\* with a payment row for the order that is 'pending', has no confirmations
\* and no hash and expires ExpiryMinutes after the current time; the step
\* that commits appends that payment and one wallet for it, with the
\* payment's address and currency and is_used = FALSE, leaves the earlier
\* rows and the queue as they were and answers 200.
C31_InitiateLeavesPending ==
  [][\A c \in Clients :
       /\ ( /\ req[c].op = "initiate_payment" /\ req[c].pc = "create"
            /\ req'[c].op = "initiate_payment" /\ req'[c].pc = "commit" )
          => LET row == req'[c].payment
                 pid == Len(payments) + 1
             IN  /\ row.order = req[c].order_id
                 /\ row.status = "pending"
                 /\ row.confirmations = 0
                 /\ row.transaction_hash = ""
                 /\ row.expires_at = now + 30
                 /\ queue' = queue (+) SetToBag({Task("monitor_crypto_payment", pid)})
                 /\ CopiesIn(Task("monitor_crypto_payment", pid), queue') = 1
       /\ ( /\ req[c].op = "initiate_payment" /\ req[c].pc = "commit"
            /\ req'[c] # req[c] )
          => LET row == req[c].payment
                 pid == Len(payments) + 1
             IN  /\ req'[c] = Response("initiate_payment", 200)
                 /\ payments' = Append(payments, row)
                 /\ Len(wallets') = Len(wallets) + 1
                 /\ SubSeq(wallets', 1, Len(wallets)) = wallets
                 /\ wallets'[Len(wallets')].payment = pid
                 /\ wallets'[Len(wallets')].address = row.wallet_address
                 /\ wallets'[Len(wallets')].currency = row.crypto_currency
                 /\ wallets'[Len(wallets')].is_used = FALSE
                 /\ queue' = queue /\ orders' = orders]_vars

\* C31's case: initiate_payment has answered 200: its payment is 'pending'
\* with one wallet, and its monitoring task is in the queue.
C31_Witness ==
  \E c \in Clients, p \in PaymentIds :
    /\ req[c] = Response("initiate_payment", 200)
    /\ payments[p].status = "pending"
    /\ Cardinality(WalletsOf(p)) = 1
    /\ CopiesIn(Task("monitor_crypto_payment", p), queue) = 1

\* C32: every turn of the sweep's loop changes a payment that is, when the
\* turn writes it, 'pending' with expires_at strictly before the current
\* time; every other payment and every other payment's wallets are left as
\* they were.
C32_SweepChangesOnlyExpired ==
  [][IsSweepWrite =>
       LET pid == Head(sweeper).payment_id
       IN  /\ payments[pid].status = "pending"
           /\ payments[pid].expires_at < now
           /\ \A p \in PaymentIds \ {pid} : payments'[p] = payments[p]
           /\ \A w \in 1..Len(wallets) :
                 wallets[w].payment # pid => wallets'[w] = wallets[w]]_vars

\* C33: whenever no request, task or sweep is under way, an order is 'paid'
\* only if its payment is 'confirmed'.
C33_PaidOnlyIfConfirmed ==
  ( /\ \A c \in Clients : req[c].op = "idle"
    /\ \A w \in Workers : worker[w].op = "idle"
    /\ sweeper = <<>> )
  => \A p \in PaymentIds :
       orders[payments[p].order].status = "paid" => payments[p].status = "confirmed"

\* C34: an order that is 'cancelled' is not 'paid' after any step.
C34_CancelledNeverPaid ==
  [][\A o \in Orders :
       orders[o].status = "cancelled" => orders'[o].status # "paid"]_vars

\* C35: the stock an order held is released once: every write of
\* cancel_order acts on an order that is 'pending' or 'processing' when it
\* writes, raises the stock of the order's product by the order's quantity
\* and leaves the order 'cancelled'; a cancel_order on a 'cancelled' order
\* adds no stock.
C35_StockReleasedOnce ==
  [][\A c \in Clients :
       IsCancelWrite(c) =>
         LET o == req[c].order_id
         IN  /\ orders[o].status \in {"pending", "processing"}
             /\ stock'[orders[o].product]
                  = stock[orders[o].product] + orders[o].quantity
             /\ orders'[o].status = "cancelled"]_vars

\* C36: the notification task of a payment is sent once: a step that puts
\* send_payment_confirmation_email for a payment in the queue is the step
\* that confirms it (the payment was not 'confirmed' before the step), and
\* no second copy of the task is waiting.
C36_EmailSentOnce ==
  [][\A p \in PaymentIds :
       LET email == Task("send_payment_confirmation_email", p)
       IN  CopiesIn(email, queue') > CopiesIn(email, queue)
             => /\ payments[p].status # "confirmed"
                /\ CopiesIn(email, queue') = 1]_vars

\* The quantities of a set of orders, added up.
RECURSIVE QuantityOf(_)
QuantityOf(os) ==
  IF os = {} THEN 0
  ELSE LET o == CHOOSE x \in os : TRUE
       IN  orders[o].quantity + QuantityOf(os \ {o})

OrdersOf(p) == {o \in Orders : orders[o].product = p}

\* The stock of a product before any of its orders was placed: the orders of
\* the model exist from the start, each holding its quantity.
StockBeforeCheckout(p) == InitialStock + QuantityOf(OrdersOf(p))

\* C37: no product's stock is negative, and it equals the stock before
\* checkout minus the quantities of the product's orders that are not
\* cancelled.
C37_StockAccountsForOrders ==
  \A p \in Products :
    /\ stock[p] >= 0
    /\ stock[p] = StockBeforeCheckout(p)
                    - QuantityOf({o \in OrdersOf(p) : orders[o].status # "cancelled"})

====
